---- MODULE Spec2Model ----
(***************************************************************************)
(* The install transaction of libpkg/pkg_add.c: pkg_add() and do_extract(). *)
(* One frame of `stack' is one invocation of pkg_add; the recursion into a  *)
(* dependency's archive pushes a frame.  The collaborators that are not in  *)
(* pkg_add.c (pkg_open2, pkgdb_*, pkg_resolvdeps, is_conf_file, pkg_free)   *)
(* are modelled at their interface.                                         *)
(***************************************************************************)
EXTENDS Integers, Sequences, FiniteSets, TLC

\* ------------------------------------------------------------------ bounds
MaxCalls == 2
MaxFaults == 1
MaxDepth == 3

\* ------------------------------------------------------- program constants
ENOENT == 2

NULL == "NULL"
Absent == "absent"

Pkgs == {"A", "B", "C"}

\* ------------------------------------------------------ the archive files
\* An archive path is dirname "/" name-version ext; every archive of a run
\* lives in the same directory, so a path is its name-version and extension.
\* ext = "" is a file name without any '.'.
MkPath(b, e) == [base |-> b, ext |-> e]
\* a NULL path argument
NullPath == MkPath(NULL, NULL)

\* The directories a run may find: every archive (and a copy of C's without
\* an extension), C's archive missing, B's archive under another extension,
\* and the four archives of the diamond.
AllFiles == {MkPath("A", ".txz"), MkPath("B", ".txz"), MkPath("C", ".txz"), MkPath("C", "")}
NoC      == {MkPath("A", ".txz"), MkPath("B", ".txz")}
BTbz     == {MkPath("A", ".txz"), MkPath("B", ".tbz"), MkPath("C", ".txz")}
WithD    == {MkPath("A", ".txz"), MkPath("B", ".txz"), MkPath("C", ".txz"), MkPath("D", ".txz")}
FileSets == {AllFiles, NoC, BTbz, WithD}

\* The dependency lists the archives declare (the world of one run): a
\* chain, a fork whose first dependency installs the second, the fork with
\* its list reversed, a diamond, and two packages that declare each other.
\* D is a package that is only ever installed as a dependency.
Chain   == [A |-> <<"B">>, B |-> <<"C">>, C |-> <<>>, D |-> <<>>]
Fork    == [A |-> <<"B", "C">>, B |-> <<"C">>, C |-> <<>>, D |-> <<>>]
Rev     == [A |-> <<"C", "B">>, B |-> <<"C">>, C |-> <<>>, D |-> <<>>]
Diamond == [A |-> <<"B", "C">>, B |-> <<"D">>, C |-> <<"D">>, D |-> <<>>]
Cycle   == [A |-> <<"B">>, B |-> <<"A">>, C |-> <<>>, D |-> <<>>]
Graphs == {Chain, Fork, Rev, Diamond, Cycle}

\* What an archive file holds.  The name of a file says nothing about the
\* package inside it: pkg_add builds the sibling's file name from the
\* dependency's name and version and opens whatever is there.
Honest(fset) == [q \in fset |-> q.base]
Mislabelled(fset) ==
  [q \in fset |-> IF q = MkPath("B", ".txz") THEN "C" ELSE q.base]

\* The worlds of a run: the declared dependencies, the files in the
\* directory and what each file holds.
World(g, fset, h) == [graph |-> g, files |-> fset, holds |-> h]
Worlds ==
  { World(g, fset, Honest(fset)) : g \in {Chain, Fork}, fset \in {AllFiles, NoC} }
  \cup { World(Rev, BTbz, Honest(BTbz)),
         World(Diamond, WithD, Honest(WithD)),
         World(Cycle, NoC, Honest(NoC)),
         World(Chain, AllFiles, Mislabelled(AllFiles)) }

\* The exit statuses system(3) hands back for a script or an exec command.
ExitStatuses == {0, 1}

\* Orders in which A's archive may store its three lifecycle scripts: the
\* order the phases run in, Install ahead of PreInstall, and PostInstall
\* first.
Perms3 ==
  { <<"PKG_SCRIPT_PRE_INSTALL", "PKG_SCRIPT_INSTALL", "PKG_SCRIPT_POST_INSTALL">>,
    <<"PKG_SCRIPT_INSTALL", "PKG_SCRIPT_PRE_INSTALL", "PKG_SCRIPT_POST_INSTALL">>,
    <<"PKG_SCRIPT_POST_INSTALL", "PKG_SCRIPT_INSTALL", "PKG_SCRIPT_PRE_INSTALL">> }

\* Filesystem paths are sequences of name parts; a config template is the
\* real path with the part "pkgconf" appended (conf1.cfg.pkgconf).
FsPaths == { <<"x">>, <<"x", "pkgconf">>, <<"y">> }

\* The non-meta entries of each archive, in payload order.
Entries(p) ==
  CASE p = "A" -> << [path |-> <<"x", "pkgconf">>, data |-> "tplA"],
                     [path |-> <<"y">>, data |-> "yA"] >>
    [] p = "B" -> << [path |-> <<"y">>, data |-> "yB"] >>
    [] OTHER   -> << >>

\* The exec directives of each archive, in declared order.
Execs(p) ==
  CASE p = "A" -> << [type |-> "PKG_EXEC", cmd |-> "a1"],
                     [type |-> "PKG_UNEXEC", cmd |-> "a2"] >>
    [] p = "B" -> << [type |-> "PKG_EXEC", cmd |-> "b1"] >>
    [] OTHER   -> << >>

VARIABLES
  db,        \* the package database: the identities registered, in registration order
  db0,       \* the database as it was when the current top-level call started
  files,     \* the archive files that exist in the directory
  fs,        \* the filesystem the payload is extracted to: path -> content
  graph,     \* the declared dependencies of each package
  holds,     \* the package each archive file holds
  stack,     \* the pkg_add invocations in progress, innermost last
  log,       \* what the current top-level call did so far, in order
  results,   \* the results (path, retcode) of the current top-level call, once
             \* it returned, and of the one before it
  descr,     \* the descriptors of the current top-level call: invocation -> state
  ntid,      \* the number of invocations the current top-level call started
  ncalls,    \* the number of top-level calls made so far
  faults,    \* the number of environment failures injected so far
  crashed,   \* the process was brought down by undefined behaviour
  sys        \* the exit statuses system(3) returned in the loop just run

vars == <<db, db0, files, fs, graph, holds, stack, log, results, descr, ntid,
          ncalls, faults, crashed, sys>>

\* ------------------------------------------------ accessors (pkg.h)
pkg_deps(p) == graph[p]

\* The script entries an archive may hold, in every stored order; the
\* descriptor lists them in the order pkg_open2 read them.
ScriptOrders(p) ==
  CASE p = "A" -> Perms3
    [] p = "B" -> { <<"PKG_SCRIPT_DEINSTALL", "PKG_SCRIPT_POST_INSTALL">> }
    [] OTHER   -> { << >> }

pkg_execs(p) == Execs(p)

\* ------------------------------------------------ the database (pkgdb.h)
\* pkgdb_query(db, origin, MATCH_EXACT) followed by pkgdb_it_next: is there
\* a record of this identity?
pkgdb_query(d, p) == \E k \in 1..Len(d) : d[k] = p

\* pkgdb_register_pkg: a successful registration appends one record.
pkgdb_register_pkg(d, p) == Append(d, p)

\* pkg_resolvdeps: the type of each declared dependency, recomputed from the
\* database on every call.
pkg_resolvdeps(p, d) ==
  [k \in 1..Len(pkg_deps(p)) |->
     IF pkgdb_query(d, pkg_deps(p)[k]) THEN "PKG_INSTALLED" ELSE "PKG_NOTFOUND"]


\* pkg_open2: parse the archive at `path'.  EPKG_END when it holds no
\* non-meta entry, an error when there is no readable archive at the path.
pkg_open2(path) ==
  IF path \notin files THEN "EPKG_FATAL"
  ELSE IF Entries(holds[path]) = << >> THEN "EPKG_END" ELSE "EPKG_OK"

\* the package the descriptor filled by pkg_open2 describes
Content(path) == IF path \in files THEN holds[path] ELSE path.base

\* is_conf_file(path, newpath): is the stored path a config template, and
\* which real path does it stand for?
is_conf_file(path) == Len(path) > 1 /\ path[Len(path)] = "pkgconf"
conf_real_path(path) == SubSeq(path, 1, Len(path) - 1)

\* lstat(2): 0 when the path exists, -1 (and errno set) when it does not.
lstat(f, path) == IF f[path] # Absent THEN 0 ELSE -1

\* ------------------------------------------------ frames and the log
\* k: what happened; t: the invocation; pkg: its package; arg, m: details
\* (script type and marker, entry path, return code); n: the calling invocation
Ev(k, t, p, arg, m, n) ==
  [k |-> k, t |-> t, pkg |-> p, arg |-> arg, m |-> m, n |-> n]

NewFrame(t, path, pkgp) ==
  [t |-> t, path |-> path, pkg_p |-> pkgp, pc |-> "open", pkg |-> NULL,
   a |-> "undef", extract |-> TRUE, retcode |-> "EPKG_OK", i |-> 1,
   dtype |-> << >>, ae |-> 1, scripts |-> << >>]

\* the caller's record of the calls it made: when it makes a call it keeps
\* the result of the one before
Recent(rs) == IF rs = << >> THEN << >> ELSE << rs[Len(rs)] >>

Top == stack[Len(stack)]
SetTop(f) == [stack EXCEPT ![Len(stack)] = f]
Running(pc) == ~crashed /\ stack # << >> /\ Top.pc = pc

CanFault == faults < MaxFaults

\* ------------------------------------------------ decisions of pkg_add
\* line 85: EPKG_END means there is nothing to extract
ExtractFlag(ret) == ret # "EPKG_END"

\* (variant: EPKG_END taken for a failure)
OpenFailedOnEnd(ret) == ret # "EPKG_OK"

\* line 87: any result but EPKG_OK and EPKG_END fails the open
OpenFailed(ret) == ret # "EPKG_END" /\ ret # "EPKG_OK"

\* (variant: the result of the duplicate check is not acted on)
AlreadyInstalledNever(ret) == FALSE

\* line 105: the iterator found a record of this origin
AlreadyInstalled(ret) == ret = "EPKG_OK"

\* line 118: strrchr(path, '.'), NULL when the path has no '.'
strrchr_dot(path) == IF path.ext = "" THEN NULL ELSE path.ext

\* (variant: the test of the dependency's type inverted)
NeedsInstallInverted(type) == type # "PKG_NOTFOUND"

\* line 124: only a dependency that was not found is installed
NeedsInstall(type) == type = "PKG_NOTFOUND"

\* (variant: the extension left out of the sibling's file name)
DepPathNoExt(dep, ext) == MkPath(dep, "")

\* lines 125-127: basedir "/" name "-" version ext
DepPath(dep, ext) == MkPath(dep, ext)

\* line 130: the nested install succeeded
NestedOk(ret) == ret = "EPKG_OK"

\* (variant: the loop steps over the dependency after the one it handled)
NextDepSkips(i) == i + 2

\* line 123: for (i = 0; deps[i] != NULL; i++)
NextDep(i) == i + 1

\* (variant: the dependency types kept as first resolved)
RecheckNever(dtype, p, d) == dtype

\* line 136: the dependencies are resolved again after a nested install
Recheck(dtype, p, d) == pkg_resolvdeps(p, d)

\* (variant: the nested return code handed on as it is)
DepFailVerbatim(ret) == ret

\* lines 138-141: a failed nested install is reported as a fatal error
DepFailCode(ret) == "EPKG_FATAL"

\* (variant: the pre-install loop also runs the post-install script)
PreRunsPostToo(type) ==
  type \in {"PKG_SCRIPT_INSTALL", "PKG_SCRIPT_PRE_INSTALL", "PKG_SCRIPT_POST_INSTALL"}

\* lines 161-177: the scripts the pre-install loop runs, with the marker
PreRuns(type) == type \in {"PKG_SCRIPT_INSTALL", "PKG_SCRIPT_PRE_INSTALL"}
PreMarker(type) == IF type = "PKG_SCRIPT_INSTALL" THEN "INSTALL" ELSE ""

\* lines 191-207: the scripts the post-install loop runs, with the marker
PostRuns(type) == type \in {"PKG_SCRIPT_INSTALL", "PKG_SCRIPT_POST_INSTALL"}
PostMarker(type) == IF type = "PKG_SCRIPT_INSTALL" THEN "POST-INSTALL" ELSE ""

\* line 217: only PKG_EXEC directives are run
ExecRuns(type) == type = "PKG_EXEC"

\* (variant: a command that exits with a status other than 0 fails the install)
AfterCommandChecked(retcode, status) ==
  IF status # 0 THEN "EPKG_FATAL" ELSE retcode

\* lines 166, 172, 199, 205, 218: system(...) is called as a statement; the
\* exit status it returns is dropped and retcode stays what it was
AfterCommand(retcode, status) == retcode

RECURSIVE AfterCommands(_, _)
\* retcode after the commands of one loop returned the statuses `st'
AfterCommands(retcode, st) ==
  IF st = << >> THEN retcode
  ELSE AfterCommands(AfterCommand(retcode, Head(st)), Tail(st))

\* (variant: a failing archive_read_next_header taken for the end of the archive)
ExtractRetNoHeaderCheck(broke, ret) ==
  IF broke THEN "EPKG_FATAL" ELSE "EPKG_OK"

\* lines 27-30, 42-46, 50-51: what do_extract returns when its loop ends:
\* an extraction failed, or the loop ended on anything but ARCHIVE_EOF
ExtractRet(broke, ret) ==
  IF broke \/ ret # "ARCHIVE_EOF" THEN "EPKG_FATAL" ELSE "EPKG_OK"

\* (variant: a failed extraction does not end the install)
ExtractAbortsNever(rc) == FALSE

\* line 183: a do_extract that did not return EPKG_OK ends the install
ExtractAborts(rc) == rc # "EPKG_OK"

\* (variant: the archive is never released)
ArchiveFinishedNever(a) == FALSE

\* line 222: archive_read_finish is called when `a' is not NULL
ArchiveFinished(a) == a # "null"

\* (variant: the real path written without looking at the filesystem)
ConfAlways(f, path) == is_conf_file(path)

\* lines 40-41: the template's real path is written when this holds
ConfMissing(f, path) ==
  is_conf_file(path) /\ lstat(f, conf_real_path(path)) = ENOENT

\* (variant: the registration not guarded by the return code)
CleanupAlwaysRegisters(retcode, reg) ==
  [doreg |-> TRUE,
   rc |-> IF retcode = "EPKG_OK" THEN reg ELSE retcode]

\* lines 225-226: the package is registered when nothing failed before, and
\* the result of the registration becomes the return code
CleanupOutcome(retcode, reg) ==
  [doreg |-> retcode = "EPKG_OK",
   rc |-> IF retcode = "EPKG_OK" THEN reg ELSE retcode]

\* lines 228-231: the descriptor is freed when the caller gave no pkg_p
FreesDescr(pkgp) == ~pkgp

RECURSIVE ScriptEvents(_, _, _, _)
\* the events of one script loop over `scr', in stored order
ScriptEvents(scr, t, p, phase) ==
  IF scr = << >> THEN << >>
  ELSE LET ty == Head(scr)
           runs == IF phase = "pre" THEN PreRuns(ty) ELSE PostRuns(ty)
           mk == IF phase = "pre" THEN PreMarker(ty) ELSE PostMarker(ty)
       IN (IF runs THEN << Ev("script", t, p, ty, mk, 0) >>
           ELSE << >>) \o ScriptEvents(Tail(scr), t, p, phase)


RECURSIVE ExecEvents(_, _, _)
\* the events of the exec loop over `ex', in declared order
ExecEvents(ex, t, p) ==
  IF ex = << >> THEN << >>
  ELSE (IF ExecRuns(Head(ex).type) THEN << Ev("exec", t, p, Head(ex).cmd, "", 0) >>
        ELSE << >>) \o ExecEvents(Tail(ex), t, p)

\* ------------------------------------------------ the initial state
Init ==
  /\ db \in { << >>, << "B" >> }
  /\ db0 = db
  /\ \E w \in Worlds : graph = w.graph /\ files = w.files /\ holds = w.holds
  /\ fs \in { [q \in FsPaths |-> Absent],
              [q \in FsPaths |-> IF q = <<"x">> THEN "custom" ELSE Absent] }
  \* a database that already holds B and a config file the administrator
  \* keeps are looked at with the chain and the fork
  /\ (db # << >> \/ fs[<<"x">>] # Absent)
       => (graph \in {Chain, Fork} /\ holds = Honest(files))
  /\ stack = << >>
  /\ log = << >>
  /\ results = << >>
  /\ descr = << >>
  /\ ntid = 0
  /\ ncalls = 0
  /\ faults = 0
  /\ crashed = FALSE
  /\ sys = << >>

\* ------------------------------------------------ pkg_add, step by step
\* lines 57-77: a caller invokes pkg_add(db, path, pkg_p)
PkgAddCall(path, pkgp) ==
  /\ sys' = << >>
  /\ ~crashed /\ stack = << >> /\ ncalls < MaxCalls
  /\ ncalls' = ncalls + 1
  /\ ntid' = 1
  /\ descr' = << [st |-> "none", frees |-> 0] >>
  /\ db0' = db
  /\ IF path = NullPath
     THEN /\ stack' = stack
          /\ log' = << Ev("call", 1, NULL, IF pkgp THEN "pkg_p" ELSE NULL, "", 0),
                      Ev("return", 1, NULL, "EPKG_FATAL", "", 0) >>
          /\ results' = Append(Recent(results), [path |-> path, ret |-> "EPKG_FATAL"])
     ELSE /\ stack' = << NewFrame(1, path, pkgp) >>
          /\ log' = << Ev("call", 1, Content(path),
                           IF pkgp THEN "pkg_p" ELSE NULL, path.ext, 0) >>
          /\ results' = Recent(results)
  /\ UNCHANGED <<db, files, fs, graph, holds, faults, crashed>>

\* lines 84-90: pkg_open2 and the decision on its result
PkgOpen ==
  /\ sys' = << >>
  /\ Running("open")
  /\ \E fault \in BOOLEAN :
       /\ fault => CanFault /\ Top.path \in files
       /\ LET f == Top
              ret == IF fault THEN "EPKG_FATAL" ELSE pkg_open2(f.path)
          IN IF OpenFailed(ret)
             THEN /\ \E av \in {"null", "undef"} :
                       stack' = SetTop([f EXCEPT !.retcode = ret, !.a = av, !.pc = "cleanup"])
                  /\ descr' = descr
             ELSE /\ \E sc \in ScriptOrders(holds[f.path]) :
                       stack' = SetTop([f EXCEPT !.pkg = holds[f.path], !.a = "open",
                                                 !.scripts = sc,
                                                 !.extract = ExtractFlag(ret),
                                                 !.pc = "query"])
                  /\ descr' = [descr EXCEPT ![f.t] = [st |-> "live", frees |-> 0]]
       /\ faults' = IF fault THEN faults + 1 ELSE faults
       /\ log' = log \o (IF fault THEN << Ev("fault", Top.t, Content(Top.path), "open", "", 0) >>
                         ELSE << >>)
                     \o << Ev("open", Top.t, Content(Top.path), "",
                              IF fault THEN "EPKG_FATAL" ELSE pkg_open2(Top.path), 0) >>
  /\ UNCHANGED <<db, db0, files, fs, graph, holds, results, ntid, ncalls, crashed>>

\* lines 95-111: is the package already installed?
DupCheck ==
  /\ sys' = << >>
  /\ Running("query")
  /\ \E out \in {"ok", "itnull", "iterr"} :
       /\ out # "ok" => CanFault
       /\ LET f == Top
              ret == IF out = "iterr" THEN "EPKG_FATAL"
                     ELSE IF pkgdb_query(db, f.pkg) THEN "EPKG_OK" ELSE "EPKG_END"
              g == IF out = "itnull" THEN [f EXCEPT !.retcode = "EPKG_FATAL", !.pc = "cleanup"]
                   ELSE IF AlreadyInstalled(ret)
                        THEN [f EXCEPT !.retcode = "EPKG_INSTALLED", !.pc = "cleanup"]
                   ELSE IF ret # "EPKG_END"
                        THEN [f EXCEPT !.retcode = ret, !.pc = "cleanup"]
                   ELSE [f EXCEPT !.pc = "deps"]
          IN /\ stack' = SetTop(g)
             /\ log' = log \o (IF out # "ok"
                               THEN << Ev("fault", f.t, f.pkg, "query", "", 0) >>
                               ELSE << >>)
                           \o << Ev("query", f.t, f.pkg, "", g.retcode, 0) >>
       /\ faults' = IF out # "ok" THEN faults + 1 ELSE faults
  /\ UNCHANGED <<db, db0, files, fs, graph, holds, results, descr, ntid, ncalls, crashed>>

\* lines 116-122: the extension of the path and the first resolution
CheckDeps ==
  /\ sys' = << >>
  /\ Running("deps")
  /\ LET f == Top
     IN IF strrchr_dot(f.path) = NULL
        THEN /\ stack' = SetTop([f EXCEPT !.retcode = "EPKG_FATAL", !.pc = "cleanup"])
             /\ log' = Append(log, Ev("noext", f.t, f.pkg, "", "", 0))
        ELSE /\ stack' = SetTop([f EXCEPT !.dtype = pkg_resolvdeps(f.pkg, db), !.i = 1,
                                          !.pc = "deploop"])
             /\ log' = log
  /\ UNCHANGED <<db, db0, files, fs, graph, holds, results, descr, ntid, ncalls,
                 faults, crashed>>

\* lines 123-152: one turn of the loop over the declared dependencies
DepLoop ==
  /\ sys' = << >>
  /\ Running("deploop")
  /\ LET f == Top
         deps == pkg_deps(f.pkg)
         dpath == DepPath(deps[f.i], strrchr_dot(f.path))
     IN IF f.i > Len(deps)
        THEN /\ stack' = SetTop([f EXCEPT !.pc = "pre"])
             /\ UNCHANGED <<log, ntid, descr>>
        ELSE IF ~NeedsInstall(f.dtype[f.i])
        THEN /\ stack' = SetTop([f EXCEPT !.i = NextDep(f.i)])
             /\ UNCHANGED <<log, ntid, descr>>
        ELSE IF dpath \in files
        THEN /\ Len(stack) < MaxDepth
             /\ stack' = Append(SetTop([f EXCEPT !.pc = "wait"]),
                                NewFrame(ntid + 1, dpath, FALSE))
             /\ ntid' = ntid + 1
             /\ descr' = Append(descr, [st |-> "none", frees |-> 0])
             /\ log' = Append(log, Ev("call", ntid + 1, Content(dpath), deps[f.i],
                                      dpath.ext, f.t))
        ELSE /\ stack' = SetTop([f EXCEPT !.retcode = "EPKG_DEPENDENCY", !.pc = "cleanup"])
             /\ log' = Append(log, Ev("missing", f.t, f.pkg, deps[f.i], "", 0))
             /\ UNCHANGED <<ntid, descr>>
  /\ UNCHANGED <<db, db0, files, fs, graph, holds, results, ncalls, faults, crashed>>

\* lines 130-143: the nested pkg_add of a dependency returned
DepReturn ==
  /\ sys' = << >>
  /\ Running("done") /\ Len(stack) > 1
  /\ LET c == Top
         f == stack[Len(stack) - 1]
         rest == SubSeq(stack, 1, Len(stack) - 2)
     IN /\ stack' = Append(rest,
              IF NestedOk(c.retcode)
              THEN [f EXCEPT !.dtype = Recheck(f.dtype, f.pkg, db), !.i = NextDep(f.i),
                             !.pc = "deploop"]
              ELSE [f EXCEPT !.retcode = DepFailCode(c.retcode), !.pc = "cleanup"])
        /\ log' = Append(log, Ev("return", c.t, Content(c.path), c.retcode, "", f.t))
  /\ UNCHANGED <<db, db0, files, fs, graph, holds, results, descr, ntid, ncalls,
                 faults, crashed>>


\* lines 157-178: the pre-install loop over the scripts
PreInstall ==
  /\ Running("pre")
  /\ LET f == Top
         evs == ScriptEvents(f.scripts, f.t, f.pkg, "pre")
     IN \E st \in [1..Len(evs) -> ExitStatuses] :
        /\ sys' = st
        /\ log' = log \o evs \o << Ev("phase", f.t, f.pkg, "pre", "", 0) >>
        /\ stack' = SetTop([f EXCEPT !.retcode = AfterCommands(f.retcode, st),
                                     !.pc = IF f.extract = TRUE THEN "extract" ELSE "post"])
  /\ UNCHANGED <<db, db0, files, fs, graph, holds, results, descr, ntid, ncalls,
                 faults, crashed>>

\* lines 26-54 and 183: one turn of do_extract's loop over the entries; the
\* last turn, or a failing one, returns to pkg_add
DoExtract ==
  /\ sys' = << >>
  /\ Running("extract")
  /\ \E x1 \in {"ok", "fail"}, x2 \in {"ok", "fail"}, h \in {"ok", "err"} :
       LET f == Top
           ents == Entries(f.pkg)
           e == ents[f.ae]
           real == conf_real_path(e.path)
           fs1 == IF x1 = "ok" THEN [fs EXCEPT ![e.path] = e.data] ELSE fs
           second == x1 = "ok" /\ ConfMissing(fs1, e.path)
           fs2 == IF second /\ x2 = "ok" THEN [fs1 EXCEPT ![real] = e.data] ELSE fs1
           broke == x1 = "fail" \/ (second /\ x2 = "fail")
           \* archive_read_next_header: ARCHIVE_OK, ARCHIVE_EOF or an error
           ret == IF h = "err" THEN "ARCHIVE_FATAL"
                  ELSE IF f.ae < Len(ents) THEN "ARCHIVE_OK" ELSE "ARCHIVE_EOF"
           nfault == (IF broke THEN 1 ELSE 0) + (IF h = "err" THEN 1 ELSE 0)
           ev1 == IF x1 = "ok"
                  THEN << Ev("extract", f.t, f.pkg, e.data, "stored", f.ae) >> ELSE << >>
           ev2 == IF second /\ x2 = "ok"
                  THEN << Ev("extract", f.t, f.pkg, e.data, "real", f.ae) >> ELSE << >>
           over == broke \/ ret # "ARCHIVE_OK"
           rc == ExtractRet(broke, ret)
           failed == over /\ rc # "EPKG_OK"
           evf == IF nfault > 0 THEN << Ev("fault", f.t, f.pkg, "extract", "", 0) >> ELSE << >>
           evdone == IF over /\ ~failed
                     THEN << Ev("phase", f.t, f.pkg, "extract", "", 0) >> ELSE << >>
       IN /\ (~second) => x2 = "ok"
          /\ broke => h = "ok"
          /\ nfault > 0 => CanFault
          /\ faults' = faults + nfault
          /\ fs' = fs2
          /\ log' = log \o ev1 \o ev2 \o evf \o evdone
          /\ stack' = SetTop(
               IF ~over
               THEN [f EXCEPT !.ae = f.ae + 1]
               ELSE [f EXCEPT !.retcode = rc,
                              !.pc = IF ExtractAborts(rc) THEN "cleanup" ELSE "post"])
  /\ UNCHANGED <<db, db0, files, graph, holds, results, descr, ntid, ncalls, crashed>>

\* lines 189-210: the post-install loop over the scripts
PostInstall ==
  /\ Running("post")
  /\ LET f == Top
         evs == ScriptEvents(f.scripts, f.t, f.pkg, "post")
     IN \E st \in [1..Len(evs) -> ExitStatuses] :
        /\ sys' = st
        /\ log' = log \o evs \o << Ev("phase", f.t, f.pkg, "post", "", 0) >>
        /\ stack' = SetTop([f EXCEPT !.retcode = AfterCommands(f.retcode, st),
                                     !.pc = "exec"])
  /\ UNCHANGED <<db, db0, files, fs, graph, holds, results, descr, ntid, ncalls,
                 faults, crashed>>

\* lines 215-218: the exec directives
RunExecs ==
  /\ Running("exec")
  /\ LET f == Top
         evs == ExecEvents(pkg_execs(f.pkg), f.t, f.pkg)
     IN \E st \in [1..Len(evs) -> ExitStatuses] :
        /\ sys' = st
        /\ log' = log \o evs \o << Ev("phase", f.t, f.pkg, "exec", "", 0) >>
        /\ stack' = SetTop([f EXCEPT !.retcode = AfterCommands(f.retcode, st),
                                     !.pc = "cleanup"])
  /\ UNCHANGED <<db, db0, files, fs, graph, holds, results, descr, ntid, ncalls,
                 faults, crashed>>

\* lines 220-233: release the archive, register, hand over or free the
\* descriptor.  `a' is read uninitialised when pkg_open2 failed before
\* setting it: the read yields NULL, or a stray pointer whose release either
\* goes unnoticed or brings the process down.
Cleanup ==
  /\ sys' = << >>
  /\ Running("cleanup")
  /\ \E ub \in {"null", "stray", "crash"}, reg \in {"EPKG_OK", "EPKG_FATAL"} :
       LET f == Top
           doreg == CleanupOutcome(f.retcode, reg).doreg
           rc == CleanupOutcome(f.retcode, reg).rc
           \* the value read from `a'
           av == IF f.a # "undef" THEN f.a ELSE IF ub = "null" THEN "null" ELSE "stray"
           fin == ArchiveFinished(av)
           evfin == IF fin /\ av = "open"
                    THEN << Ev("finish", f.t, f.pkg, "", "", 0) >> ELSE << >>
           evreg == (IF doreg /\ reg # "EPKG_OK"
                     THEN << Ev("fault", f.t, f.pkg, "register", "", 0) >> ELSE << >>)
                    \o (IF doreg THEN << Ev("register", f.t, f.pkg, reg, "", 0) >>
                        ELSE << >>)
           freed == FreesDescr(f.pkg_p) /\ f.pkg # NULL
           evfree == IF freed THEN << Ev("free", f.t, f.pkg, "", "", 0) >> ELSE << >>
           d == descr[f.t]
       IN /\ f.a # "undef" => ub = "null"
          /\ ~doreg => reg = "EPKG_OK"
          /\ (doreg /\ reg # "EPKG_OK") => CanFault
          /\ IF fin /\ ub = "crash"
             THEN /\ crashed' = TRUE
                  /\ UNCHANGED <<db, stack, log, descr, faults>>
             ELSE /\ crashed' = crashed
                  /\ faults' = IF doreg /\ reg # "EPKG_OK" THEN faults + 1 ELSE faults
                  /\ db' = IF doreg /\ reg = "EPKG_OK"
                           THEN pkgdb_register_pkg(db, f.pkg) ELSE db
                  /\ descr' = [descr EXCEPT ![f.t] =
                       IF freed THEN [st |-> "freed", frees |-> d.frees + 1]
                       ELSE IF f.pkg_p /\ rc = "EPKG_OK" /\ f.pkg # NULL
                            THEN [d EXCEPT !.st = "caller"]
                       ELSE d]
                  /\ log' = log \o evfin \o evreg \o evfree
                  /\ stack' = SetTop([f EXCEPT !.retcode = rc,
                                               !.a = IF fin THEN "closed" ELSE f.a,
                                               !.pc = "done"])
  /\ UNCHANGED <<db0, files, fs, graph, holds, results, ntid, ncalls>>

\* line 233: the top-level pkg_add returns to its caller
Return ==
  /\ sys' = << >>
  /\ Running("done") /\ Len(stack) = 1
  /\ LET f == Top
     IN /\ results' = Append(results, [path |-> f.path, ret |-> f.retcode])
        /\ log' = Append(log, Ev("return", f.t, Content(f.path), f.retcode, "", 0))
  /\ stack' = << >>
  /\ UNCHANGED <<db, db0, files, fs, graph, holds, descr, ntid, ncalls, faults, crashed>>

Inputs == {NullPath, MkPath("C", "")} \cup {MkPath(b, ".txz") : b \in Pkgs}

Next ==
  \/ \E path \in Inputs, pkgp \in BOOLEAN : PkgAddCall(path, pkgp)
  \/ PkgOpen
  \/ DupCheck
  \/ CheckDeps
  \/ DepLoop
  \/ DepReturn
  \/ PreInstall
  \/ DoExtract
  \/ PostInstall
  \/ RunExecs
  \/ Cleanup
  \/ Return

Spec == Init /\ [][Next]_vars

\* pkg_add is sequential code: once it is called, the statement control has
\* reached is executed.  Only the caller's next call is not forced.
Step ==
  \/ PkgOpen \/ DupCheck \/ CheckDeps \/ DepLoop \/ DepReturn \/ PreInstall
  \/ DoExtract \/ PostInstall \/ RunExecs \/ Cleanup \/ Return

LiveSpec == Spec /\ WF_vars(Step)


\* ------------------------------------------------ reading the log
Idx == 1..Len(log)
Tids == 1..ntid
HasEv(k, t) == \E j \in Idx : log[j].k = k /\ log[j].t = t
HasEvArg(k, t, arg) == \E j \in Idx : log[j].k = k /\ log[j].t = t /\ log[j].arg = arg
CallEv(t) == log[CHOOSE j \in Idx : log[j].k = "call" /\ log[j].t = t]
Returned(t) == HasEv("return", t)
RetOf(t) == log[CHOOSE j \in Idx : log[j].k = "return" /\ log[j].t = t].arg
PkgOfT(t) == CallEv(t).pkg
Faulted(t) == HasEv("fault", t)
NoFaults == \A j \in Idx : log[j].k # "fault"

\* the records the current top-level call added to the database
Added == SubSeq(db, Len(db0) + 1, Len(db))

RECURSIVE RegisteredPkgs(_)
\* the packages of the successful pkgdb_register_pkg calls of a log, in order
RegisteredPkgs(l) ==
  IF l = << >> THEN << >>
  ELSE (IF Head(l).k = "register" /\ Head(l).arg = "EPKG_OK" THEN << Head(l).pkg >>
        ELSE << >>) \o RegisteredPkgs(Tail(l))

RegisteredBy(t) == HasEvArg("register", t, "EPKG_OK")

\* the steps of transaction t that act on the system: scripts, extractions,
\* exec directives
ActsOf(t) == {j \in Idx : log[j].t = t /\ log[j].k \in {"script", "extract", "exec"}}

\* pre-install scripts, extraction (when the archive has file entries),
\* post-install scripts and exec directives of transaction t all completed
StepsDone(t) ==
  /\ HasEvArg("phase", t, "pre")
  /\ Entries(PkgOfT(t)) # << >> =>
       /\ HasEvArg("phase", t, "extract")
       /\ \A n \in 1..Len(Entries(PkgOfT(t))) :
            \E j \in Idx : /\ log[j].k = "extract" /\ log[j].t = t
                           /\ log[j].m = "stored" /\ log[j].n = n
  /\ HasEvArg("phase", t, "post")
  /\ HasEvArg("phase", t, "exec")

\* pkgdb_register_pkg, when transaction t called it, was its last step
RegisterLast(t) ==
  \A j \in Idx : (log[j].k = "register" /\ log[j].t = t) =>
     /\ StepsDone(t)
     /\ \A i \in ActsOf(t) : i < j
     /\ \A i \in Idx : (log[i].k = "phase" /\ log[i].t = t) => i < j

\* C1 as stated: a package identity is registered if and only if its
\* pre-install scripts, its extraction, its post-install scripts and its exec
\* directives completed in that same transaction.
C1_AsStated ==
  /\ Added = RegisteredPkgs(log)
  /\ \A t \in Tids : Returned(t) => (RegisteredBy(t) <=> StepsDone(t))

\* C1 (amended): a package identity is registered by a transaction if and
\* only if that transaction completed its pre-install scripts, extraction,
\* post-install scripts and exec directives and its pkgdb_register_pkg call
\* succeeded; pkgdb_register_pkg is called only after all of them, as the last
\* step, and the records the database gained are exactly those registrations.
C1_RegisteredIffCompleted ==
  /\ Added = RegisteredPkgs(log)
  /\ \A t \in Tids :
       /\ RegisterLast(t)
       /\ Returned(t) =>
            /\ RegisteredBy(t) <=> (StepsDone(t) /\ HasEv("register", t)
                                    /\ ~HasEvArg("fault", t, "register"))
            /\ StepsDone(t) => HasEv("register", t)

\* a nested dependency install went through every step and was registered,
\* and another transaction of the same call failed and was not
C1_Witness ==
  /\ \E t \in Tids : t > 1 /\ Returned(t) /\ RegisteredBy(t) /\ StepsDone(t)
                      /\ Entries(PkgOfT(t)) # << >>
  /\ \E t \in Tids : Returned(t) /\ ~RegisteredBy(t) /\ HasEvArg("phase", t, "pre")
                      /\ ~StepsDone(t)


Range(q) == {q[k] : k \in 1..Len(q)}
\* every archive file holds the package its name says
HonestFiles == \A q \in files : holds[q] = q.base
Count(q, x) == Cardinality({k \in 1..Len(q) : q[k] = x})
Idle == stack = << >> /\ ~crashed
LastResult == results[Len(results)]

\* C2: installing the same package identity twice in a row yields EPKG_OK and
\* then EPKG_INSTALLED (barring an I/O failure of the second call's open or
\* query); the second call runs no script, extracts nothing, starts no nested
\* install and registers nothing, and the database holds exactly one record of
\* the identity.
C2_IdempotentRejection ==
  (/\ Idle /\ Len(results) = 2
   /\ results[1].path = results[2].path
   /\ results[1].ret = "EPKG_OK"
   /\ NoFaults)
  => /\ results[2].ret = "EPKG_INSTALLED"
     /\ ActsOf(1) = {}
     /\ ~HasEv("register", 1)
     /\ ntid = 1
     /\ db = db0
     /\ Count(db, Content(results[2].path)) = 1

\* the same archive (A, which has scripts, entries and dependencies) was
\* installed twice: EPKG_OK, then EPKG_INSTALLED
C2_Witness ==
  /\ Idle /\ Len(results) = 2
  /\ results[1] = [path |-> MkPath("A", ".txz"), ret |-> "EPKG_OK"]
  /\ results[2] = [path |-> MkPath("A", ".txz"), ret |-> "EPKG_INSTALLED"]
  /\ Count(db, "A") = 1

\* the entry do_extract is about to process
CurEntry == Entries(Top.pkg)[Top.ae]
AtTemplate == Running("extract") /\ is_conf_file(CurEntry.path)
ExtractFailed == stack # << >> /\ Top.pc = "cleanup"

\* C3 as stated: a config template whose real path does not exist before the
\* entry is processed leaves, once the entry is processed without error, the
\* real path holding the template's content.
C3_AsStated ==
  [][(/\ AtTemplate
      /\ fs[conf_real_path(CurEntry.path)] = Absent
      /\ ~ExtractFailed')
     => fs'[conf_real_path(CurEntry.path)] = CurEntry.data]_vars

\* C4: processing a config template whose real path already exists writes
\* the template's own stored path and nothing else; the real path keeps its
\* content.
C4_ExistingConfigUntouched ==
  [][(AtTemplate /\ fs[conf_real_path(CurEntry.path)] # Absent)
     => \A q \in FsPaths \ {CurEntry.path} : fs'[q] = fs[q]]_vars

\* the template of A was extracted while the real path held the
\* administrator's content, and the package went on to be registered
C4_Witness ==
  /\ fs[<<"x">>] = "custom"
  /\ fs[<<"x", "pkgconf">>] = "tplA"
  /\ "A" \in Range(Added)

\* C5: with A depending on B and B on C, the three archives in one directory
\* and nothing failing, pkg_add on A's archive returns EPKG_OK with A
\* registered last; from an empty database the records are C, B, A in that
\* order; a package that was installed before the call is not registered
\* again.
C5_DependencyOrder ==
  (/\ Idle /\ results # << >>
   /\ LastResult.path = MkPath("A", ".txz")
   /\ "B" \in Range(pkg_deps("A")) /\ pkg_deps("B") = <<"C">> /\ pkg_deps("C") = << >>
   /\ \A p \in Pkgs : MkPath(p, ".txz") \in files /\ holds[MkPath(p, ".txz")] = p
   /\ "A" \notin Range(db0)
   /\ NoFaults)
  => /\ LastResult.ret = "EPKG_OK"
     /\ db # << >> /\ db[Len(db)] = "A"
     /\ db0 = << >> => db = <<"C", "B", "A">>
     /\ \A p \in Pkgs : Count(db, p) <= 1
     /\ Range(Added) \cap Range(db0) = {}

\* pkg_add on A registered C, then B, then A
C5_Witness ==
  /\ Idle /\ results # << >> /\ LastResult = [path |-> MkPath("A", ".txz"), ret |-> "EPKG_OK"]
  /\ db0 = << >> /\ db = <<"C", "B", "A">>
  /\ ntid = 3


\* the top-level call was made on the archive of a package that was not
\* installed, one of whose declared dependencies was neither installed nor
\* present as a sibling archive
MissingDepCase ==
  /\ Idle /\ results # << >> /\ NoFaults
  /\ LastResult.path \in files
  /\ Content(LastResult.path) \notin Range(db0)
  /\ HonestFiles
  /\ \E k \in 1..Len(pkg_deps(Content(LastResult.path))) :
       LET d == pkg_deps(Content(LastResult.path))[k]
       IN d \notin Range(db0) /\ MkPath(d, LastResult.path.ext) \notin files

\* the nested installs transaction t started, and those that failed
ChildrenOf(t) == {c \in Tids : CallEv(c).n = t}
FailedChildren(t) == {c \in ChildrenOf(t) : Returned(c) /\ RetOf(c) # "EPKG_OK"}

NothingDone(t) ==
  /\ ActsOf(t) = {}
  /\ ~HasEv("register", t)
  /\ ~HasEv("phase", t)
  /\ PkgOfT(t) \notin Range(Added)

\* C6 as stated: a declared dependency that is not installed and has no
\* sibling archive makes pkg_add on the dependent (itself not installed, its
\* archive readable) return EPKG_DEPENDENCY, with
\* the dependent not registered, none of its scripts or exec directives run
\* and none of its files extracted.
C6_AsStated ==
  MissingDepCase => (LastResult.ret = "EPKG_DEPENDENCY" /\ NothingDone(1))

\* C6 (amended): in that case the dependent is not registered, runs no
\* script or exec directive and extracts nothing; it returns EPKG_DEPENDENCY
\* when every unresolved dependency the loop reached before the missing one
\* installed successfully, and EPKG_FATAL when the nested install of such an
\* earlier dependency failed.
C6_MissingDependencyHalts ==
  MissingDepCase =>
    /\ NothingDone(1)
    /\ LastResult.ret \in {"EPKG_DEPENDENCY", "EPKG_FATAL"}
    /\ LastResult.ret = "EPKG_DEPENDENCY" <=> FailedChildren(1) = {}
    /\ LastResult.ret = "EPKG_DEPENDENCY" <=> HasEv("missing", 1)
    /\ Cardinality(FailedChildren(1)) <= 1

\* A declares B and C, B is installed and C has no archive: A reports the
\* missing dependency
C6_Witness ==
  /\ MissingDepCase
  /\ LastResult = [path |-> MkPath("A", ".txz"), ret |-> "EPKG_DEPENDENCY"]
  /\ HasEvArg("missing", 1, "C")

RECURSIVE Labels(_, _)
\* what transaction t ran, in order: each script with its marker, each exec
\* directive, and the extraction as one step
Labels(l, t) ==
  IF l = << >> THEN << >>
  ELSE LET e == Head(l)
           rest == Labels(Tail(l), t)
           lab == IF e.k = "script" THEN << <<e.arg, e.m>> >>
                  ELSE IF e.k = "exec" THEN << <<"EXEC", e.arg>> >>
                  ELSE IF e.k = "extract" THEN << <<"EXTRACT", "">> >>
                  ELSE << >>
       IN IF e.t # t THEN rest
          ELSE IF lab # << >> /\ rest # << >> /\ lab[1] = <<"EXTRACT", "">> /\ rest[1] = lab[1]
               THEN rest
          ELSE lab \o rest

\* a top-level pkg_add of A that succeeded and has not yet returned
DoneA == /\ Running("done") /\ Len(stack) = 1
         /\ Top.pkg = "A" /\ Top.retcode = "EPKG_OK"

\* C7 as stated: whatever the order in which the archive stores the script
\* entries, a successful pkg_add runs PreInstall, Install with the pre-phase
\* marker, the extraction, Install with the POST-INSTALL marker, PostInstall,
\* Exec.
C7_AsStated ==
  DoneA => Labels(log, 1) = << <<"PKG_SCRIPT_PRE_INSTALL", "">>,
                               <<"PKG_SCRIPT_INSTALL", "INSTALL">>,
                               <<"EXTRACT", "">>,
                               <<"PKG_SCRIPT_INSTALL", "POST-INSTALL">>,
                               <<"PKG_SCRIPT_POST_INSTALL", "">>,
                               <<"EXEC", "a1">> >>

RECURSIVE Pick(_, _, _)
\* the scripts of `scr' whose type is in `types', in stored order, the
\* Install script carrying `marker'
Pick(scr, types, marker) ==
  IF scr = << >> THEN << >>
  ELSE (IF Head(scr) \in types
        THEN << <<Head(scr), IF Head(scr) = "PKG_SCRIPT_INSTALL" THEN marker ELSE "">> >>
        ELSE << >>) \o Pick(Tail(scr), types, marker)

\* C7 (amended): a successful pkg_add runs, in this order, the PreInstall and
\* Install (pre-phase marker) scripts in the order the archive stores them, the
\* extraction, the Install (POST-INSTALL marker) and PostInstall scripts in the
\* order the archive stores them, and the Exec directive; the order of the
\* claim is observed when the archive stores PreInstall, Install, PostInstall
\* in that order.
C7_ScriptOrder ==
  DoneA =>
    /\ Labels(log, 1) =
         Pick(Top.scripts, {"PKG_SCRIPT_INSTALL", "PKG_SCRIPT_PRE_INSTALL"}, "INSTALL")
         \o << <<"EXTRACT", "">> >>
         \o Pick(Top.scripts, {"PKG_SCRIPT_INSTALL", "PKG_SCRIPT_POST_INSTALL"}, "POST-INSTALL")
         \o << <<"EXEC", "a1">> >>
    /\ Top.scripts = <<"PKG_SCRIPT_PRE_INSTALL", "PKG_SCRIPT_INSTALL", "PKG_SCRIPT_POST_INSTALL">>
         => Labels(log, 1) = << <<"PKG_SCRIPT_PRE_INSTALL", "">>,
                                <<"PKG_SCRIPT_INSTALL", "INSTALL">>,
                                <<"EXTRACT", "">>,
                                <<"PKG_SCRIPT_INSTALL", "POST-INSTALL">>,
                                <<"PKG_SCRIPT_POST_INSTALL", "">>,
                                <<"EXEC", "a1">> >>

\* A was installed from an archive that stores Install before PreInstall
C7_Witness ==
  /\ DoneA
  /\ Top.scripts = <<"PKG_SCRIPT_INSTALL", "PKG_SCRIPT_PRE_INSTALL", "PKG_SCRIPT_POST_INSTALL">>
  /\ Len(Labels(log, 1)) = 6


FailedCall == Idle /\ results # << >> /\ LastResult.ret # "EPKG_OK"

\* C8 as stated: when a top-level pkg_add returns anything but EPKG_OK, the
\* database holds no record added by that call or by the nested installs it
\* started.
C8_AsStated == FailedCall => db = db0

\* C8 (amended): when a top-level pkg_add returns anything but EPKG_OK, the
\* database holds no record of that call's own package added by it; every
\* record the call added is the package of a nested dependency install that
\* itself returned EPKG_OK, and those records stay.
C8_FailedCallRegistersNothingOfItsOwn ==
  FailedCall =>
    /\ PkgOfT(1) \notin Range(Added)
    /\ \A k \in 1..Len(Added) :
         \E t \in Tids : /\ t > 1 /\ PkgOfT(t) = Added[k]
                         /\ Returned(t) /\ RetOf(t) = "EPKG_OK"
    /\ \A k \in 1..Len(db0) : db[k] = db0[k]

\* pkg_add on A failed after the nested install of B had been registered
C8_Witness ==
  /\ FailedCall /\ PkgOfT(1) = "A"
  /\ "B" \in Range(Added)
  /\ "A" \notin Range(db)

\* C9 as stated: whenever pkg_add ends with an outcome other than EPKG_OK,
\* the descriptor it opened has been freed exactly once, whether the caller
\* passed a pkg_p or NULL.
C9_AsStated ==
  \A t \in Tids :
    (Returned(t) /\ RetOf(t) # "EPKG_OK" /\ descr[t].st # "none")
      => descr[t] = [st |-> "freed", frees |-> 1]

\* the transactions of packages whose archive has no file entry, called on
\* an existing archive with an extension (every archive holding the package
\* its name says) while the package was not installed,
\* in which no I/O failed and no dependency failed
PlainNoEntryRun(t) ==
  /\ Returned(t) /\ ~Faulted(t)
  /\ PkgOfT(t) \in Pkgs
  /\ Entries(PkgOfT(t)) = << >>
  /\ CallEv(t).m # "" /\ MkPath(PkgOfT(t), CallEv(t).m) \in files
  /\ HonestFiles
  /\ t = 1 => PkgOfT(t) \notin Range(db0)
  /\ ~HasEv("missing", t) /\ FailedChildren(t) = {}

Pos(k, t, arg) == CHOOSE j \in Idx : log[j].k = k /\ log[j].t = t /\ log[j].arg = arg

\* C10: for an archive without file entries pkg_add never calls the
\* extractor, and (when nothing else fails) it runs the duplicate check, the
\* dependency resolution, the pre-install scripts, the post-install scripts,
\* the exec directives and the registration, in this order, and returns
\* EPKG_OK with the package registered.
C10_NoEntries ==
  \A t \in Tids :
    /\ (PkgOfT(t) \in Pkgs /\ Entries(PkgOfT(t)) = << >>) =>
         /\ ~HasEv("extract", t)
         /\ ~HasEvArg("phase", t, "extract")
    /\ PlainNoEntryRun(t) =>
         /\ RetOf(t) = "EPKG_OK"
         /\ HasEvArg("query", t, "") /\ HasEvArg("phase", t, "pre")
         /\ HasEvArg("phase", t, "post") /\ HasEvArg("phase", t, "exec")
         /\ HasEvArg("register", t, "EPKG_OK")
         /\ Pos("query", t, "") < Pos("phase", t, "pre")
         /\ Pos("phase", t, "pre") < Pos("phase", t, "post")
         /\ Pos("phase", t, "post") < Pos("phase", t, "exec")
         /\ Pos("phase", t, "exec") < Pos("register", t, "EPKG_OK")
         /\ PkgOfT(t) \in Range(Added)

\* C, whose archive holds metadata only, was installed as a nested
\* dependency and registered without any extraction
C10_Witness ==
  \E t \in Tids : /\ t > 1 /\ PlainNoEntryRun(t) /\ PkgOfT(t) = "C"
                  /\ RegisteredBy(t) /\ "C" \in Range(db)

\* ------------------------------------------------ failing steps
\* event e records that a step of transaction t failed: its open, its
\* duplicate check, the extension of its path, a dependency without archive,
\* the nested install of a dependency, its extraction
IsFailure(e, t) ==
  \/ e.t = t /\ e.k = "open" /\ e.m \notin {"EPKG_OK", "EPKG_END"}
  \/ e.t = t /\ e.k = "query" /\ e.m # "EPKG_OK"
  \/ e.t = t /\ e.k \in {"noext", "missing"}
  \/ e.k = "return" /\ e.n = t /\ e.arg # "EPKG_OK"
  \/ e.t = t /\ e.k = "fault" /\ e.arg = "extract"

\* the return code that failing step leaves
FailCode(e, t) ==
  IF e.k \in {"open", "query"} THEN e.m
  ELSE IF e.k = "missing" THEN "EPKG_DEPENDENCY"
  ELSE "EPKG_FATAL"

\* event e is a step of the install of transaction t: anything but the
\* release of the archive, the freeing of the descriptor and the return
StepOf(e, t) ==
  \/ e.t = t /\ e.k \in {"open", "query", "noext", "missing", "script", "extract",
                          "exec", "phase", "register"}
  \/ e.k = "call" /\ e.n = t

\* C11: once a step of a transaction has failed (open, duplicate check,
\* dependency resolution, extraction), that transaction performs no later
\* step: no nested install, script, extraction, exec directive or
\* registration; and the code it returns is that failing step's.
C11_FailureShortCircuits ==
  \A t \in Tids : \A j \in Idx :
    IsFailure(log[j], t) =>
      /\ \A i \in Idx : i > j => ~StepOf(log[i], t)
      /\ Returned(t) => RetOf(t) = FailCode(log[j], t)

\* pkg_add on A installed a dependency, ran A's pre-install scripts, failed
\* while extracting and returned
C11_Witness ==
  /\ log # << >> /\ PkgOfT(1) = "A" /\ ChildrenOf(1) # {}
  /\ HasEv("script", 1) /\ HasEvArg("fault", 1, "extract")
  /\ Returned(1) /\ RetOf(1) = "EPKG_FATAL"

\* ------------------------------------------------ exit statuses
\* the pc pkg_add moves to after the loop at `pc' when nothing stops it
AfterLoop(f) ==
  IF f.pc = "pre" THEN (IF f.extract = TRUE THEN "extract" ELSE "post")
  ELSE IF f.pc = "post" THEN "exec" ELSE "cleanup"

\* the number of commands the loop at `pc' hands to system(3)
Commands(f) ==
  IF f.pc = "pre" THEN Len(SelectSeq(f.scripts, PreRuns))
  ELSE IF f.pc = "post" THEN Len(SelectSeq(f.scripts, PostRuns))
  ELSE Len(SelectSeq(pkg_execs(f.pkg), LAMBDA x : ExecRuns(x.type)))

\* C12: the exit statuses of the lifecycle scripts and exec commands have no
\* influence on the install: whatever statuses the commands of a loop return,
\* every command of the loop is run, the return code stays what it was, the
\* install goes on to the same next step, and neither the database nor the
\* extracted files change.  (`sys' holds the statuses of the step; the rest of
\* the successor state is the same for all of them.)
C12_ExitStatusIgnored ==
  [][(~crashed /\ stack # << >> /\ Top.pc \in {"pre", "post", "exec"})
     => /\ Len(stack') = Len(stack)
        /\ stack'[Len(stack')] = [Top EXCEPT !.pc = AfterLoop(Top)]
        /\ SubSeq(stack', 1, Len(stack) - 1) = SubSeq(stack, 1, Len(stack) - 1)
        /\ Len(sys') = Commands(Top)
        /\ Len(log') = Len(log) + Commands(Top) + 1
        /\ \A j \in Len(log) + 1 .. Len(log') - 1 : log'[j].k \in {"script", "exec"}
        /\ <<db, db0, fs, results, descr, faults, crashed>>'
             = <<db, db0, fs, results, descr, faults, crashed>>]_vars

\* the exec command of A exited with status 1 and the install of A, with its
\* return code still EPKG_OK, is about to register the package
C12_Witness ==
  /\ Running("cleanup") /\ Top.pkg = "A" /\ Top.retcode = "EPKG_OK"
  /\ sys = <<1>>

\* ------------------------------------------------ the archive handle
\* transaction t opened its archive: pkg_open2 returned EPKG_OK or EPKG_END
Opened(t) ==
  \E j \in Idx : log[j].k = "open" /\ log[j].t = t /\ log[j].m \in {"EPKG_OK", "EPKG_END"}

\* the number of times transaction t released its archive
Finishes(t) == Cardinality({j \in Idx : log[j].k = "finish" /\ log[j].t = t})

\* C13: every archive a pkg_add invocation opened is released, once, before
\* that invocation returns, whatever it returns, for the top-level call and
\* for every nested one; an invocation that opened no archive releases none;
\* when the top-level call has returned no frame is left and no archive is
\* open.
C13_ArchiveReleased ==
  /\ \A t \in Tids :
       /\ Finishes(t) <= 1
       /\ Finishes(t) = 1 => Opened(t)
       /\ Returned(t) =>
            /\ Opened(t) => Finishes(t) = 1
            /\ \A j \in Idx : (log[j].k = "finish" /\ log[j].t = t)
                              => j < Pos("return", t, RetOf(t))
  /\ \A k \in 1..Len(stack) :
       /\ stack[k].pc = "done" => stack[k].a # "open"
       /\ stack[k].a = "open" => (Opened(stack[k].t) /\ Finishes(stack[k].t) = 0)
  /\ (Idle /\ results # << >>) => \A t \in Tids : Returned(t)

\* pkg_add on A returned an error; it and the nested install it started had
\* each opened an archive and released it
C13_Witness ==
  /\ Idle /\ results # << >> /\ LastResult.ret # "EPKG_OK"
  /\ ntid > 1
  /\ \A t \in Tids : Opened(t) /\ Finishes(t) = 1

\* ------------------------------------------------ shared dependencies
AllPkgs == Pkgs \cup {"D"}

\* pkg_add was called on A's archive (A not installed) where a dependency is
\* declared by two packages, every archive is in the directory and holds the
\* package its name says, and no I/O failed
SharedDepCase ==
  /\ Idle /\ results # << >> /\ NoFaults
  /\ LastResult.path = MkPath("A", ".txz")
  /\ graph \in {Fork, Diamond}
  /\ HonestFiles
  /\ \A p \in AllPkgs : \A k \in 1..Len(pkg_deps(p)) :
        MkPath(pkg_deps(p)[k], ".txz") \in files
  /\ "A" \notin Range(db0)

\* C14: when the install of one dependency also installs another declared
\* dependency (A declares B and C and B declares C; or A declares B and C and
\* both declare D), pkg_add on A returns EPKG_OK, no nested install returns
\* EPKG_INSTALLED, no package is the subject of two nested installs, and
\* every package is registered exactly once.
C14_SharedDependencyOnce ==
  SharedDepCase =>
    /\ LastResult.ret = "EPKG_OK"
    /\ \A t \in Tids : Returned(t) /\ RetOf(t) = "EPKG_OK"
    /\ \A t, u \in Tids : PkgOfT(t) = PkgOfT(u) => t = u
    /\ \A p \in AllPkgs : Count(db, p) <= 1
    /\ \A p \in {"A"} \cup Range(pkg_deps("A")) : Count(db, p) = 1
    /\ \A t \in Tids : Count(Added, PkgOfT(t)) = 1
    /\ Len(Added) = ntid

\* A declares B and C, B declares C: pkg_add on A installed C inside the
\* install of B and did not start an install of C itself
C14_Witness ==
  /\ SharedDepCase /\ graph = Fork
  /\ db0 = << >> /\ db = <<"C", "B", "A">>
  /\ ntid = 3 /\ ChildrenOf(1) = {2} /\ PkgOfT(2) = "B" /\ PkgOfT(3) = "C"

\* ------------------------------------------------ the dependency loop
\* the position of dependency d in the list package p declares
DepIdx(p, d) == CHOOSE k \in 1..Len(pkg_deps(p)) : pkg_deps(p)[k] = d

\* the nested install c returned EPKG_OK and its package is registered
InstalledOk(c) ==
  Returned(c) /\ RetOf(c) = "EPKG_OK" /\ PkgOfT(c) \in Range(Added)

\* package p declares a dependency that is not installed and for which the
\* directory holds no archive with extension `ext'
Unsatisfiable(p, ext) ==
  \E k \in 1..Len(pkg_deps(p)) :
    pkg_deps(p)[k] \notin Range(db) /\ MkPath(pkg_deps(p)[k], ext) \notin files

\* C15: a transaction handles its unresolved dependencies in the order they
\* are declared, one nested install at a time, each started only after the
\* one before returned EPKG_OK and was registered.  The first dependency
\* that is not installed and has no archive halts it with EPKG_DEPENDENCY:
\* no dependency after it is attempted, the installs started before it are
\* registered, every dependency declared before it is in the database
\* (files holding the package their name says), and a transaction with such
\* a dependency never registers its package.
C15_DeclaredOrderHalt ==
  \A t \in Tids :
    /\ \A c, e \in ChildrenOf(t) :
         c < e => /\ DepIdx(PkgOfT(t), CallEv(c).arg) < DepIdx(PkgOfT(t), CallEv(e).arg)
                  /\ InstalledOk(c)
    /\ \A j \in Idx : (log[j].k = "missing" /\ log[j].t = t) =>
         /\ \A c \in ChildrenOf(t) :
              /\ DepIdx(PkgOfT(t), CallEv(c).arg) < DepIdx(PkgOfT(t), log[j].arg)
              /\ InstalledOk(c)
         /\ \A i \in Idx : i > j => /\ ~(log[i].k = "call" /\ log[i].n = t)
                                    /\ ~(log[i].k = "missing" /\ log[i].t = t)
         /\ HonestFiles =>
              \A k \in 1..(DepIdx(PkgOfT(t), log[j].arg) - 1) :
                 pkg_deps(PkgOfT(t))[k] \in Range(db)
         /\ ~HasEv("register", t)
         /\ Returned(t) => RetOf(t) = "EPKG_DEPENDENCY"
    /\ (HonestFiles /\ HasEv("query", t) /\ Unsatisfiable(PkgOfT(t), CallEv(t).m))
         => ~HasEv("register", t)

\* A declares C and B and only C has an archive: pkg_add on A installed and
\* registered C, found no archive for B and returned EPKG_DEPENDENCY
C15_Witness ==
  /\ Idle /\ results # << >> /\ graph = Rev
  /\ LastResult = [path |-> MkPath("A", ".txz"), ret |-> "EPKG_DEPENDENCY"]
  /\ HasEvArg("missing", 1, "B")
  /\ ChildrenOf(1) = {2} /\ InstalledOk(2) /\ db = <<"C">>

\* ------------------------------------------------ a failed nested install
\* C16: when a nested pkg_add returns anything but EPKG_OK (EPKG_INSTALLED
\* and EPKG_DEPENDENCY included), the parent runs none of its scripts,
\* extracts nothing, runs no exec directive, starts no further nested install
\* and is not registered, and it returns EPKG_FATAL whatever the nested
\* code was: the nested code is replaced, never handed on.
C16_NestedFailureIsFatal ==
  \A t \in Tids : \A c \in FailedChildren(t) :
    /\ ActsOf(t) = {} /\ ~HasEv("phase", t) /\ ~HasEv("register", t)
    /\ \A e \in ChildrenOf(t) : e <= c
    /\ \A k \in 1..Len(stack) :
         stack[k].t = t => stack[k].retcode = "EPKG_FATAL" /\ stack[k].pc \in {"cleanup", "done"}
    /\ Returned(t) =>
         /\ RetOf(t) = "EPKG_FATAL"
         /\ RetOf(c) # "EPKG_FATAL" => RetOf(t) # RetOf(c)

\* the archive named after A's dependency held a package that was already
\* installed: the nested pkg_add returned EPKG_INSTALLED and pkg_add on A
\* returned EPKG_FATAL
C16_Witness ==
  /\ Idle /\ results # << >> /\ LastResult.ret = "EPKG_FATAL"
  /\ PkgOfT(1) = "A" /\ FailedChildren(1) = {2}
  /\ RetOf(2) = "EPKG_INSTALLED"
  /\ "A" \notin Range(db)

\* ------------------------------------------------ do_extract
\* the positions in the log at which transaction t extracted an entry to
\* its stored path
Stored(t) == {j \in Idx : log[j].k = "extract" /\ log[j].t = t /\ log[j].m = "stored"}

\* the payload entries of transaction t that were extracted
StoredEntries(t) == {log[j].n : j \in Stored(t)}

\* C17: do_extract extracts the entries in payload order, each once.  When
\* an extraction or the reading of the next header fails it returns
\* EPKG_FATAL: no later entry is extracted, the entries extracted before stay
\* on disk with their content, and the package is not registered.  When it
\* succeeds every entry of the payload has been extracted to its stored path.
C17_ExtractFailStop ==
  \A t \in Tids :
    /\ \A i, j \in Stored(t) : i < j => log[i].n < log[j].n
    /\ \A j \in Stored(t) : \A n \in 1..(log[j].n - 1) : n \in StoredEntries(t)
    /\ HasEvArg("fault", t, "extract") =>
         /\ \A j \in Idx : log[j].t = t /\ log[j].k \in {"extract", "phase"}
                            => j < Pos("fault", t, "extract")
         /\ ~HasEvArg("phase", t, "extract")
         /\ ~HasEv("register", t) /\ PkgOfT(t) \notin Range(Added)
         /\ \A j \in Stored(t) :
              fs[Entries(PkgOfT(t))[log[j].n].path] = Entries(PkgOfT(t))[log[j].n].data
         /\ Returned(t) => RetOf(t) = "EPKG_FATAL"
    /\ HasEvArg("phase", t, "extract") =>
         /\ StoredEntries(t) = 1..Len(Entries(PkgOfT(t)))
         /\ \A j \in Stored(t) : j < Pos("phase", t, "extract")
         /\ (stack # << >> /\ Top.t = t /\ Top.pc = "post") =>
              \A n \in 1..Len(Entries(PkgOfT(t))) :
                 fs[Entries(PkgOfT(t))[n].path] = Entries(PkgOfT(t))[n].data

\* the extraction of A's second entry failed after its first entry was
\* written: the first entry is on disk, A is not registered and pkg_add
\* returned EPKG_FATAL
C17_Witness ==
  /\ Idle /\ results # << >> /\ LastResult.ret = "EPKG_FATAL"
  /\ PkgOfT(1) = "A" /\ HasEvArg("fault", 1, "extract")
  /\ StoredEntries(1) = {1}
  /\ fs[<<"x", "pkgconf">>] = "tplA" /\ fs[<<"y">>] # "yA"
  /\ "A" \notin Range(db)

\* ------------------------------------------------ termination
RECURSIVE Reaches(_, _, _)
\* q is reached from p by following at most n declared dependencies
Reaches(p, q, n) ==
  n > 0 /\ \E k \in 1..Len(pkg_deps(p)) :
             pkg_deps(p)[k] = q \/ Reaches(pkg_deps(p)[k], q, n - 1)

Acyclic == \A p \in AllPkgs : ~Reaches(p, p, Cardinality(AllPkgs))

RECURSIVE ChainLen(_, _)
\* the number of packages on the longest chain that starts at p and goes on
\* through declared dependencies that are not in database d
ChainLen(p, d) ==
  LET un == {k \in 1..Len(pkg_deps(p)) : pkg_deps(p)[k] \notin Range(d)}
      len(k) == ChainLen(pkg_deps(p)[k], d)
  IN IF un = {} THEN 1
     ELSE 1 + len(CHOOSE k \in un : \A j \in un : len(j) <= len(k))

\* C18: when the declared dependencies have no cycle, the number of pkg_add
\* invocations in progress never exceeds the number of packages on the
\* longest chain of unresolved dependencies that starts at the package being
\* installed, and the top-level invocation eventually returns, every nested
\* one having returned before it (or the process is brought down by the
\* release of a stray archive pointer).
C18_AcyclicTerminates ==
  /\ [](Acyclic /\ stack # << >>
         => Len(stack) <= ChainLen(Content(stack[1].path), db0))
  /\ (Acyclic /\ stack # << >>) ~> (crashed \/ stack = << >>)

\* with A declaring B, B declaring C and nothing installed, the install of
\* C runs inside the install of B inside the install of A
C18_Witness ==
  /\ Acyclic /\ Len(stack) = 3
  /\ ChainLen(Content(stack[1].path), db0) = 3
  /\ Top.pc = "done" /\ Top.retcode = "EPKG_OK"

\* ------------------------------------------------ a dependency cycle
\* A and B declare each other, neither is installed, both archives are in
\* the directory; pkg_add was called on one of them and no I/O failed
CycleCase ==
  /\ graph = Cycle /\ db0 = << >> /\ log # << >> /\ NoFaults
  /\ PkgOfT(1) \in {"A", "B"}

\* C19: pkg_add on a package of a dependency cycle recurses for as long as
\* there is room: every invocation waits in its dependency loop for the
\* nested install of the other package, the innermost one goes on to start
\* the next, no invocation returns, no package is registered and the
\* database stays as it was.
C19_CycleRecursesForever ==
  CycleCase =>
    /\ stack # << >> /\ Len(stack) = ntid
    /\ db = db0 /\ ~\E j \in Idx : log[j].k \in {"register", "return"}
    /\ \A k \in 1..Len(stack) :
         /\ stack[k].t = k
         /\ k < Len(stack) => /\ stack[k].pc = "wait"
                               /\ PkgOfT(k + 1) = pkg_deps(PkgOfT(k))[1]
                               /\ CallEv(k + 1).n = k
         /\ stack[k].pc \in {"open", "query", "deps", "deploop", "wait"}
    /\ Len(stack) < MaxDepth => ENABLED Step

\* pkg_add on A is installing B, which is installing A again
C19_Witness ==
  /\ CycleCase /\ Len(stack) = 3
  /\ PkgOfT(1) = "A" /\ PkgOfT(2) = "B" /\ PkgOfT(3) = "A"
  /\ Top.pc = "deploop"

\* ------------------------------------------------ dependency closure
\* every package of database d has all its declared dependencies in d
Closed(d) ==
  \A k \in 1..Len(d) : \A i \in 1..Len(pkg_deps(d[k])) :
    pkg_deps(d[k])[i] \in Range(d)

\* C20 as stated: starting from a database in which every registered
\* package has all its declared dependencies registered, every package
\* pkg_add registers has, at the moment it is registered, each of its
\* declared dependencies registered already.
C20_AsStated ==
  Closed(db0) =>
    \A k \in (Len(db0) + 1)..Len(db) : \A i \in 1..Len(pkg_deps(db[k])) :
      pkg_deps(db[k])[i] \in Range(SubSeq(db, 1, k - 1))

====
